---- MODULE Spec2Model ----
(***************************************************************************)
(* Model of the synergos_worker REST-RPC session layer: the Record Store   *)
(* (MetaRecords), the Process Registry (the process-wide CACHE) and the    *)
(* request handlers Termination.post, Prediction.post and Alignment.post.  *)
(* Each handler is a sequence of steps run by a request thread; Spec      *)
(* serves one request at a time.                                           *)
(***************************************************************************)
EXTENDS Naturals, Sequences, FiniteSets, TLC

\* ------------------------------------------------------------------ bounds
\* Number of worker processes that can be spawned in one behaviour.
MaxPid == 2

\* ------------------------------------------------------------ value domains
Threads == {"t1", "t2"}
Projects == {"p1", "p2"}
Roles == {"evaluate", "predict"}
ExptIds == {<<"e">>}
RunIds == {<<"1">>, <<"2">>}
Pids == 1..MaxPid

\* rest_rpc.core.utils.construct_combination_key joins the two identifiers
\* with a separator that occurs in neither of them.
Sep == "|"
\* variant: the identifiers are joined with nothing between them
construct_combination_key_nosep(expt_id, run_id) == expt_id \o run_id
construct_combination_key(expt_id, run_id) == expt_id \o <<Sep>> \o run_id

Keys == {construct_combination_key(e, r) : e \in ExptIds, r \in RunIds}

\* HTTP statuses the handlers end in; an exception no handler catches is
\* turned into 500 by the web framework.
OK == 200
NotFound == 404
Insufficient == 417
InternalFailure == 500
Conflict == 409

\* A dict with no members, and `d[k] = v` on a dict.
EmptyMap == [x \in {} |-> x]
Assign(d, k, v) == [x \in DOMAIN d \cup {k} |-> IF x = k THEN v ELSE d[x]]

\* ------------------------------------------------------------- record store
\* meta_records.read returns a falsy value for a project without record.
NoRecord == [kind |-> "none"]
NoPath == <<>>
NoAlignments == [kind |-> "unset"]

TagsInputs == {{"evaluate"}, {"evaluate", "predict"}}

\* The record a poll creates: tags as submitted, an exports entry for each
\* tagged role, nothing in progress, no results, not live.
NewRecord(tags) ==
    [kind |-> "record",
     tags |-> tags,
     alignments |-> NoAlignments,
     exports |-> [m \in tags |-> [predictions |-> NoPath, scores |-> NoPath]],
     in_progress |-> {},
     results |-> EmptyMap,
     is_live |-> FALSE]

\* `if retrieved_metadata:` -- truthiness of what read returned.
Truthy(rec) == rec # NoRecord

\* meta_records.read(project_id)
Read(recs, project_id) == recs[project_id]

\* variant: the fields of `updates` are merged into the stored record
Update_merge(recs, project_id, updates) ==
    [recs EXCEPT ![project_id] =
        [f \in DOMAIN recs[project_id] \cup DOMAIN updates |->
            IF f \in DOMAIN updates THEN updates[f]
            ELSE recs[project_id][f]]]

\* meta_records.update(project_id, updates): the stored record becomes
\* `updates`; the new snapshot is what a later read returns.
Update(recs, project_id, updates) == [recs EXCEPT ![project_id] = updates]

\* --------------------------------------------------------- process registry
\* CACHE = infinite_nested_dict(): a defaultdict whose missing keys are
\* created on subscript (but not on pop).
Absent == [kind |-> "absent"]
\* the empty nested defaultdict that cache[project_id]['participant']
\* leaves behind for a project that had no entry
DefaultEntry == [kind |-> "defaultdict"]
SessionEntry(pid) == [kind |-> "session", pid |-> pid]

\* dict.pop(key) on a defaultdict: KeyError when the key is missing
PopRaises(c, project_id) == c[project_id] = Absent
PopValue(c, project_id) == c[project_id]
\* variant: the entry is read but left in the cache
PopCache_keep(c, project_id) == c
\* variant: the pop empties the registry
PopCache_all(c, project_id) == [q \in DOMAIN c |-> Absent]
PopCache(c, project_id) == [c EXCEPT ![project_id] = Absent]

\* cache[project_id]: __missing__ inserts a fresh nested defaultdict
GetItemValue(c, project_id) ==
    IF c[project_id] = Absent THEN DefaultEntry ELSE c[project_id]
GetItemCache(c, project_id) ==
    IF c[project_id] = Absent THEN [c EXCEPT ![project_id] = DefaultEntry]
    ELSE c

\* A subscript of a nested defaultdict yields another defaultdict, which has
\* none of the attributes of a worker stub or of a process.
IsStub(entry) == entry.kind = "session"

\* ------------------------------------------------------------------ exports
\* PREDICT_TEMPLATE paths, substituted with project, expt, run and meta
y_pred_path(p, e, r, m) == <<"inference_predictions", p, e, r, m>>
y_score_path(p, e, r, m) == <<"inference_scores", p, e, r, m>>
stats_path(p, e, r, m) == <<"inference_statistics", p, e, r, m>>

\* The labels the worker of a project holds for a role, as a class set.
RawLabels(p, m) == IF p = "p1" THEN {0, 1} ELSE {0, 1, 2}

\* label_binarizer = LabelBinarizer(): one object, made when the module is
\* loaded; it has no classes_ until its first fit.
Unfitted == [kind |-> "unfitted"]
\* fit(y): classes_ becomes the distinct labels of y
Fit(raw_labels) == [kind |-> "fitted", classes_ |-> raw_labels]
\* transform(y): one indicator column per class of classes_, or a single
\* column when y has at most two labels and classes_ has at most two; a
\* label outside classes_ gets no indicator.
Transform(binarizer, raw_labels) ==
    [columns |-> IF Cardinality(raw_labels) <= 2
                    /\ Cardinality(binarizer.classes_) <= 2
                 THEN 1 ELSE Cardinality(binarizer.classes_),
     encoded |-> raw_labels \cap binarizer.classes_]
\* Benchmarker(labels, y_pred, y_score).analyse()
Analyse(labels, inference) == [classes |-> labels, scored |-> inference]

\* ------------------------------------------------------------------- state
VARIABLES
    records,        \* Record Store: project -> record or NoRecord
    cache,          \* Process Registry: project -> entry or Absent
    alive,          \* pid -> the OS process is alive
    closed,         \* pid -> the process handle has been released
    loop,           \* pid -> "idle" | "running" | "stopping"
    registered,     \* pid -> the stub is in the local worker registry
    data,           \* pid -> roles the worker holds datasets of
    nextPid,        \* next process id to hand out
    pc,             \* thread -> position in its handler
    req,            \* thread -> the request it serves
    retrieved_metadata, \* thread -> local copy of the record
    project,        \* thread -> entry taken from the cache
    results,        \* thread -> Prediction.post's local results dict
    todo,           \* thread -> inferences still to iterate over
    resp,           \* thread -> response of the finished request
    written,        \* thread -> export files its request has written
    steps,          \* thread -> teardown steps its request has done, in order
    pre,            \* thread -> the stores as they were when its request began
    ever_in_progress, \* project -> keys that have been in in_progress (history)
    label_binarizer \* the LabelBinarizer all requests share

vars == <<records, cache, alive, closed, loop, registered, data, nextPid,
          pc, req, retrieved_metadata, project, results, todo, resp,
          written, steps, pre, ever_in_progress, label_binarizer>>

procVars == <<alive, closed, loop, registered, data, nextPid>>
localVars == <<retrieved_metadata, project, results, todo>>

NoReq == [op |-> "none"]
NoResp == [status |-> 0]
NoPre == [kind |-> "none"]

Init ==
    /\ records = [p \in Projects |-> NoRecord]
    /\ cache = [p \in Projects |-> Absent]
    /\ alive = [i \in Pids |-> FALSE]
    /\ closed = [i \in Pids |-> FALSE]
    /\ loop = [i \in Pids |-> "idle"]
    /\ registered = [i \in Pids |-> FALSE]
    /\ data = [i \in Pids |-> {}]
    /\ nextPid = 1
    /\ pc = [t \in Threads |-> "idle"]
    /\ req = [t \in Threads |-> NoReq]
    /\ retrieved_metadata = [t \in Threads |-> NoRecord]
    /\ project = [t \in Threads |-> Absent]
    /\ results = [t \in Threads |-> EmptyMap]
    /\ todo = [t \in Threads |-> <<>>]
    /\ resp = [t \in Threads |-> NoResp]
    /\ written = [t \in Threads |-> {}]
    /\ steps = [t \in Threads |-> <<>>]
    /\ pre = [t \in Threads |-> NoPre]
    /\ ever_in_progress = [p \in Projects |-> {}]
    /\ label_binarizer = Unfitted


\* ------------------------------------------------------------ request inputs
\* request.json['tags'] of an alignment; MissingTags stands for a body that
\* has no 'tags' member.
MissingTags == {"<missing>"}

\* request.json['inferences']: role -> inference, in the order of the body.
\* An inference is either {} ("empty") or holds y_pred and y_score ("full").

PollRequests(projects, tagss) ==
    {[op |-> "poll", project_id |-> p, tags |-> g] :
        p \in projects, g \in tagss}
StartRequests(projects, runs, runnings, datas) ==
    {[op |-> "start", project_id |-> p, expt_id |-> e, run_id |-> r,
      running |-> b, data |-> d] :
        p \in projects, e \in ExptIds, r \in runs, b \in runnings,
        d \in datas}
TerminateRequests(projects, runs) ==
    {[op |-> "terminate", project_id |-> p, expt_id |-> e, run_id |-> r] :
        p \in projects, e \in ExptIds, r \in runs}
PredictRequests(projects, runs, inferencess) ==
    {[op |-> "predict", project_id |-> p, expt_id |-> e, run_id |-> r,
      inferences |-> i] :
        p \in projects, e \in ExptIds, r \in runs, i \in inferencess}
AlignRequests(projects, tagss, alignmentss) ==
    {[op |-> "align", project_id |-> p, tags |-> g, alignments |-> a] :
        p \in projects, g \in tagss, a \in alignmentss}

\* The combination key of the request a thread serves.
KeyOf(r) == construct_combination_key(r.expt_id, r.run_id)

\* ------------------------------------------------------------ request frame
storeVars == <<records, cache>>
otherThreadVars == <<written, steps>>

\* The stores as a request finds them.
Snapshot == [kind |-> "pre", records |-> records, cache |-> cache]

Response(r, status, error, rdata) ==
    [status |-> status, error |-> error, data |-> rdata]

ClearLocals(t) ==
    /\ retrieved_metadata' = [retrieved_metadata EXCEPT ![t] = NoRecord]
    /\ project' = [project EXCEPT ![t] = Absent]
    /\ results' = [results EXCEPT ![t] = EmptyMap]
    /\ todo' = [todo EXCEPT ![t] = <<>>]

\* An idle request thread picks up request r and its handler runs up to the
\* step `label`.
Enter(t, r, label) ==
    /\ pc' = [pc EXCEPT ![t] = label]
    /\ req' = [req EXCEPT ![t] = r]
    /\ resp' = [resp EXCEPT ![t] = NoResp]
    /\ pre' = [pre EXCEPT ![t] = Snapshot]
    /\ written' = [written EXCEPT ![t] = {}]
    /\ steps' = [steps EXCEPT ![t] = <<>>]

\* An idle request thread picks up request r and its handler returns (or
\* aborts) in its first step.
Reply(t, r, status, error, rdata) ==
    /\ pc' = pc
    /\ req' = [req EXCEPT ![t] = r]
    /\ pre' = [pre EXCEPT ![t] = Snapshot]
    /\ resp' = [resp EXCEPT ![t] = Response(r, status, error, rdata)]
    /\ written' = [written EXCEPT ![t] = {}]
    /\ steps' = [steps EXCEPT ![t] = <<>>]
    /\ ClearLocals(t)

\* The handler of thread t goes on to its next step.
Goto(t, label) ==
    /\ pc' = [pc EXCEPT ![t] = label]
    /\ UNCHANGED <<req, resp, pre>>

\* The handler of thread t returns (or aborts, or raises): the response goes
\* out and the locals of the handler are gone.
Finish(t, status, error, rdata) ==
    /\ pc' = [pc EXCEPT ![t] = "idle"]
    /\ resp' = [resp EXCEPT ![t] = Response(req[t], status, error, rdata)]
    /\ UNCHANGED <<req, pre>>
    /\ ClearLocals(t)

\* ------------------------------------------------- poll / initialise (start)
\* Record Store create: a new record, or AlreadyExists.
Poll(t, r) ==
    /\ pc[t] = "idle"
    /\ LET p == r.project_id IN
       IF Truthy(Read(records, p))
       THEN /\ Reply(t, r, Conflict, "AlreadyExists", NoRecord)
            /\ UNCHANGED records
       ELSE /\ records' = [records EXCEPT ![p] = NewRecord(r.tags)]
            /\ Reply(t, r, OK, "none", NewRecord(r.tags))
    /\ UNCHANGED <<cache, procVars, ever_in_progress>>
    /\ UNCHANGED label_binarizer

\* variant: put replaces the entry of a project that already has one
Start_overwrite(t, r) ==
    /\ pc[t] = "idle"
    /\ nextPid <= MaxPid
    /\ LET p == r.project_id
           rec == Read(records, p)
           pid == nextPid
           new == [rec EXCEPT !.is_live = TRUE,
                              !.in_progress = @ \cup {KeyOf(r)}]
       IN  IF ~Truthy(rec)
           THEN /\ Reply(t, r, NotFound, "abort", NoRecord)
                /\ UNCHANGED <<storeVars, procVars, ever_in_progress>>
           ELSE /\ alive' = [alive EXCEPT ![pid] = TRUE]
                /\ loop' = [loop EXCEPT ![pid] =
                               IF r.running THEN "running" ELSE "idle"]
                /\ registered' = [registered EXCEPT ![pid] = TRUE]
                /\ data' = [data EXCEPT ![pid] = r.data]
                /\ nextPid' = nextPid + 1
                /\ cache' = [cache EXCEPT ![p] = SessionEntry(pid)]
                /\ records' = Update(records, p, new)
                /\ ever_in_progress' = [ever_in_progress EXCEPT ![p] =
                                           @ \cup {KeyOf(r)}]
                /\ Reply(t, r, OK, "none", new)
                /\ UNCHANGED closed
    /\ UNCHANGED label_binarizer

\* Lifecycle Manager start: spawn the worker process, put the entry, set
\* is_live, and enter the run's combination key into in_progress.
Start(t, r) ==
    /\ pc[t] = "idle"
    /\ nextPid <= MaxPid
    /\ LET p == r.project_id
           rec == Read(records, p)
           pid == nextPid
           new == [rec EXCEPT !.is_live = TRUE,
                              !.in_progress = @ \cup {KeyOf(r)}]
       IN  IF ~Truthy(rec)
           THEN /\ Reply(t, r, NotFound, "abort", NoRecord)
                /\ UNCHANGED <<storeVars, procVars, ever_in_progress>>
           ELSE IF cache[p] # Absent
           THEN /\ Reply(t, r, Conflict, "Conflict", NoRecord)
                /\ UNCHANGED <<storeVars, procVars, ever_in_progress>>
           ELSE /\ alive' = [alive EXCEPT ![pid] = TRUE]
                /\ loop' = [loop EXCEPT ![pid] =
                               IF r.running THEN "running" ELSE "idle"]
                /\ registered' = [registered EXCEPT ![pid] = TRUE]
                /\ data' = [data EXCEPT ![pid] = r.data]
                /\ nextPid' = nextPid + 1
                /\ cache' = [cache EXCEPT ![p] = SessionEntry(pid)]
                /\ records' = Update(records, p, new)
                /\ ever_in_progress' = [ever_in_progress EXCEPT ![p] =
                                           @ \cup {KeyOf(r)}]
                /\ Reply(t, r, OK, "none", new)
                /\ UNCHANGED closed
    /\ UNCHANGED label_binarizer

\* The worker process exits: on its own, or because it handles the
\* termination signal.
ProcessExits(pid) ==
    /\ alive[pid]
    /\ alive' = [alive EXCEPT ![pid] = FALSE]
    /\ UNCHANGED <<storeVars, closed, loop, registered, data, nextPid,
                   pc, req, resp, pre, localVars, otherThreadVars,
                   ever_in_progress>>
    /\ UNCHANGED label_binarizer

\* The worker process exits because it handles the termination signal that
\* a termination request waits on.
SignalHandled(pid) ==
    /\ \E t \in Threads : pc[t] = "t_join" /\ project[t].pid = pid
    /\ ProcessExits(pid)

\* --------------------------------------------------------- Termination.post
Log(t, done) == steps' = [steps EXCEPT ![t] = @ \o done]

\* variant: the handler goes on to the registry without looking at what
\* read returned
T_read_nocheck(t, r) ==
    /\ pc[t] = "idle"
    /\ retrieved_metadata' = [retrieved_metadata EXCEPT
                                 ![t] = Read(records, r.project_id)]
    /\ Enter(t, r, "t_pop")
    /\ UNCHANGED <<project, results, todo>>
    /\ UNCHANGED <<storeVars, procVars, ever_in_progress>>
    /\ UNCHANGED label_binarizer

\* meta_records.read(project_id); `if retrieved_metadata:`
T_read(t, r) ==
    /\ pc[t] = "idle"
    /\ LET rec == Read(records, r.project_id) IN
       IF Truthy(rec)
       THEN /\ retrieved_metadata' = [retrieved_metadata EXCEPT ![t] = rec]
            /\ Enter(t, r, "t_pop")
            /\ UNCHANGED <<project, results, todo>>
       ELSE Reply(t, r, NotFound, "abort", NoRecord)
    /\ UNCHANGED <<storeVars, procVars, ever_in_progress>>
    /\ UNCHANGED label_binarizer

\* project = cache.pop(project_id)
T_pop(t) ==
    /\ pc[t] = "t_pop"
    /\ LET p == req[t].project_id IN
       IF PopRaises(cache, p)
       THEN /\ Finish(t, InternalFailure, "KeyError", NoRecord)
            /\ UNCHANGED <<cache, steps>>
       ELSE /\ project' = [project EXCEPT ![t] = PopValue(cache, p)]
            /\ cache' = PopCache(cache, p)
            /\ Goto(t, "t_detach")
            /\ Log(t, <<"remove">>)
            /\ UNCHANGED <<retrieved_metadata, results, todo>>
    /\ UNCHANGED <<records, procVars, written, ever_in_progress>>
    /\ UNCHANGED label_binarizer

\* wss_worker.remove_worker_from_local_worker_registry(); the call is into
\* the worker library and `fails` is whether it raises.
T_detach(t, fails) ==
    /\ pc[t] = "t_detach"
    /\ IF ~IsStub(project[t])
       THEN /\ Finish(t, InternalFailure, "AttributeError", NoRecord)
            /\ UNCHANGED <<registered, steps>>
       ELSE IF fails
       THEN /\ Finish(t, InternalFailure, "DetachError", NoRecord)
            /\ UNCHANGED <<registered, steps>>
       ELSE /\ registered' = [registered EXCEPT ![project[t].pid] = FALSE]
            /\ Goto(t, "t_loop")
            /\ Log(t, <<"detach">>)
            /\ UNCHANGED localVars
    /\ UNCHANGED <<storeVars, alive, closed, loop, data, nextPid, written,
                   ever_in_progress>>
    /\ UNCHANGED label_binarizer

\* if wss_worker.loop.is_running():
\*     loop.call_soon_threadsafe(loop.stop).call_soon_threadsafe(loop.close)
\* call_soon_threadsafe returns a Handle, which has no call_soon_threadsafe.
T_loop(t) ==
    /\ pc[t] = "t_loop"
    /\ LET pid == project[t].pid IN
       IF loop[pid] = "running"
       THEN /\ loop' = [loop EXCEPT ![pid] = "stopping"]
            /\ Log(t, <<"loop_stop">>)
            /\ Finish(t, InternalFailure, "AttributeError", NoRecord)
       ELSE /\ Goto(t, "t_proc")
            /\ UNCHANGED <<loop, steps, localVars>>
    /\ UNCHANGED <<storeVars, alive, closed, registered, data, nextPid,
                   written, ever_in_progress>>
    /\ UNCHANGED label_binarizer

\* variant: the process is neither signalled nor joined
T_proc_skip(t) ==
    /\ pc[t] = "t_proc"
    /\ Goto(t, "t_update")
    /\ UNCHANGED <<storeVars, procVars, localVars, otherThreadVars,
                   ever_in_progress>>
    /\ UNCHANGED label_binarizer

\* if wssw_process.is_alive(): wssw_process.terminate()
\* terminate() only sends the signal; the process exits when it handles it.
T_proc(t) ==
    /\ pc[t] = "t_proc"
    /\ LET pid == project[t].pid IN
       IF alive[pid]
       THEN /\ Log(t, <<"signal">>)
            /\ Goto(t, "t_join")
       ELSE /\ Goto(t, "t_update")
            /\ UNCHANGED steps
    /\ UNCHANGED <<storeVars, procVars, localVars, written, ever_in_progress>>
    /\ UNCHANGED label_binarizer

\* variant: the join returns while the process is still alive
T_join_nowait(t) ==
    /\ pc[t] = "t_join"
    /\ LET pid == project[t].pid IN
       /\ closed' = [closed EXCEPT ![pid] = TRUE]
       /\ Log(t, <<"join", "check", "release">>)
    /\ Goto(t, "t_update")
    /\ UNCHANGED <<storeVars, alive, loop, registered, data, nextPid,
                   localVars, written, ever_in_progress>>
    /\ UNCHANGED label_binarizer

\* wssw_process.join() has no timeout: it returns once the process has
\* exited, and not before; assert not wssw_process.is_alive();
\* wssw_process.close()
T_join(t) ==
    /\ pc[t] = "t_join"
    /\ LET pid == project[t].pid IN
       /\ ~alive[pid]
       /\ closed' = [closed EXCEPT ![pid] = TRUE]
       /\ Log(t, <<"join", "check", "release">>)
    /\ Goto(t, "t_update")
    /\ UNCHANGED <<storeVars, alive, loop, registered, data, nextPid,
                   localVars, written, ever_in_progress>>
    /\ UNCHANGED label_binarizer

\* retrieved_metadata['is_live'] = False; meta_records.update(...); 200
T_update(t) ==
    /\ pc[t] = "t_update"
    /\ LET p == req[t].project_id
           updates == [retrieved_metadata[t] EXCEPT !.is_live = FALSE]
       IN  /\ records' = Update(records, p, updates)
           /\ Log(t, <<"write">>)
           /\ Finish(t, OK, "none", Read(records', p))
    /\ UNCHANGED <<cache, procVars, written, ever_in_progress>>
    /\ UNCHANGED label_binarizer

\* ---------------------------------------------------------- Prediction.post
\* expt_run_key = construct_combination_key(expt_id, run_id);
\* retrieved_metadata = meta_records.read(project_id);
\* if retrieved_metadata and expt_run_key in retrieved_metadata['in_progress']
\* variant: any project with a record passes
InProgress_any(rec, key) == Truthy(rec)
\* variant: any key passes as long as some run is in progress
InProgress_nonempty(rec, key) == Truthy(rec) /\ rec.in_progress # {}
InProgress(rec, key) == Truthy(rec) /\ key \in rec.in_progress

P_read(t, r) ==
    /\ pc[t] = "idle"
    /\ LET rec == Read(records, r.project_id) IN
       IF InProgress(rec, KeyOf(r))
       THEN /\ retrieved_metadata' = [retrieved_metadata EXCEPT ![t] = rec]
            /\ Enter(t, r, "p_cache")
            /\ UNCHANGED <<project, results, todo>>
       ELSE Reply(t, r, NotFound, "abort", NoRecord)
    /\ UNCHANGED <<storeVars, procVars, ever_in_progress>>
    /\ UNCHANGED label_binarizer

\* wss_worker = cache[project_id]['participant']; wss_worker._objects;
\* results = {}; the iteration over request.json['inferences'] begins
P_cache(t) ==
    /\ pc[t] = "p_cache"
    /\ LET p == req[t].project_id
           entry == GetItemValue(cache, p)
       IN  /\ cache' = GetItemCache(cache, p)
           /\ IF ~IsStub(entry)
              THEN Finish(t, InternalFailure, "AttributeError", NoRecord)
              ELSE /\ project' = [project EXCEPT ![t] = entry]
                   /\ results' = [results EXCEPT ![t] = EmptyMap]
                   /\ todo' = [todo EXCEPT ![t] = req[t].inferences]
                   /\ Goto(t, "p_loop")
                   /\ UNCHANGED retrieved_metadata
    /\ UNCHANGED <<records, procVars, otherThreadVars, ever_in_progress>>
    /\ UNCHANGED label_binarizer

\* variant: a role with an empty inference is processed like the others
P_role_noskip(t) ==
    /\ pc[t] = "p_loop"
    /\ todo[t] # <<>>
    /\ LET p == req[t].project_id
           meta == todo[t][1][1]
           inference == todo[t][1][2]
       IN  IF FALSE
           THEN /\ todo' = [todo EXCEPT ![t] = Tail(@)]
                /\ Goto(t, "p_loop")
                /\ UNCHANGED <<retrieved_metadata, project, results,
                               label_binarizer>>
           ELSE IF meta \notin data[project[t].pid]
           \* wss_worker.search(["#y", f"#{meta}"])[0] on an empty list
           THEN /\ Finish(t, InternalFailure, "IndexError", NoRecord)
                /\ UNCHANGED label_binarizer
           ELSE /\ label_binarizer' = Fit(RawLabels(p, meta))
                /\ Goto(t, "p_fitted")
                /\ UNCHANGED localVars
    /\ UNCHANGED <<storeVars, procVars, otherThreadVars, ever_in_progress>>

\* The head of one iteration of
\* `for meta, inference in request.json['inferences']`: an empty inference
\* is skipped; otherwise the labels are looked up in the worker and the
\* shared binarizer is fitted to them (the first half of fit_transform).
P_role(t) ==
    /\ pc[t] = "p_loop"
    /\ todo[t] # <<>>
    /\ LET p == req[t].project_id
           meta == todo[t][1][1]
           inference == todo[t][1][2]
       IN  IF inference = "empty"
           THEN /\ todo' = [todo EXCEPT ![t] = Tail(@)]
                /\ Goto(t, "p_loop")
                /\ UNCHANGED <<retrieved_metadata, project, results,
                               label_binarizer>>
           ELSE IF meta \notin data[project[t].pid]
           \* wss_worker.search(["#y", f"#{meta}"])[0] on an empty list
           THEN /\ Finish(t, InternalFailure, "IndexError", NoRecord)
                /\ UNCHANGED label_binarizer
           ELSE /\ label_binarizer' = Fit(RawLabels(p, meta))
                /\ Goto(t, "p_fitted")
                /\ UNCHANGED localVars
    /\ UNCHANGED <<storeVars, procVars, otherThreadVars, ever_in_progress>>

\* variant: the record is stored after every role
P_transform_persist(t) ==
    /\ pc[t] = "p_fitted"
    /\ LET p == req[t].project_id
           e == req[t].expt_id
           r == req[t].run_id
           meta == todo[t][1][1]
           inference == todo[t][1][2]
           rec == retrieved_metadata[t]
           paths == {y_pred_path(p, e, r, meta), y_score_path(p, e, r, meta),
                     stats_path(p, e, r, meta)}
           labels == Transform(label_binarizer, RawLabels(p, meta))
           bundle == [statistics |-> Analyse(labels, inference),
                      res_path |-> stats_path(p, e, r, meta)]
       IN  /\ written' = [written EXCEPT ![t] = @ \cup paths]
           /\ IF meta \notin DOMAIN rec.exports
              \* retrieved_metadata['exports'][meta] raises KeyError
              THEN Finish(t, Insufficient, "KeyError", NoRecord)
              ELSE /\ results' = [results EXCEPT ![t] =
                                     Assign(@, meta, bundle)]
                   /\ retrieved_metadata' =
                         [retrieved_metadata EXCEPT ![t].exports[meta] =
                             [predictions |-> y_pred_path(p, e, r, meta),
                              scores |-> y_score_path(p, e, r, meta)]]
                   /\ todo' = [todo EXCEPT ![t] = Tail(@)]
                   /\ Goto(t, "p_loop")
                   /\ UNCHANGED project
    /\ records' = IF pc'[t] = "p_loop"
                  THEN Update(records, req[t].project_id,
                              retrieved_metadata'[t])
                  ELSE records
    /\ UNCHANGED <<cache, procVars, steps, ever_in_progress,
                   label_binarizer>>

\* The rest of the iteration: the labels are encoded with the classes the
\* shared binarizer holds by now (the second half of fit_transform), the
\* statistics are computed, the three files are written and the export
\* paths are entered in the local copy of the record.
P_transform(t) ==
    /\ pc[t] = "p_fitted"
    /\ LET p == req[t].project_id
           e == req[t].expt_id
           r == req[t].run_id
           meta == todo[t][1][1]
           inference == todo[t][1][2]
           rec == retrieved_metadata[t]
           paths == {y_pred_path(p, e, r, meta), y_score_path(p, e, r, meta),
                     stats_path(p, e, r, meta)}
           labels == Transform(label_binarizer, RawLabels(p, meta))
           bundle == [statistics |-> Analyse(labels, inference),
                      res_path |-> stats_path(p, e, r, meta)]
       IN  /\ written' = [written EXCEPT ![t] = @ \cup paths]
           /\ IF meta \notin DOMAIN rec.exports
              \* retrieved_metadata['exports'][meta] raises KeyError
              THEN Finish(t, Insufficient, "KeyError", NoRecord)
              ELSE /\ results' = [results EXCEPT ![t] =
                                     Assign(@, meta, bundle)]
                   /\ retrieved_metadata' =
                         [retrieved_metadata EXCEPT ![t].exports[meta] =
                             [predictions |-> y_pred_path(p, e, r, meta),
                              scores |-> y_score_path(p, e, r, meta)]]
                   /\ todo' = [todo EXCEPT ![t] = Tail(@)]
                   /\ Goto(t, "p_loop")
                   /\ UNCHANGED project
    /\ UNCHANGED <<storeVars, procVars, steps, ever_in_progress,
                   label_binarizer>>

\* variant: the new bundle is merged into the stored one
P_update_merge(t) ==
    /\ pc[t] = "p_loop"
    /\ todo[t] = <<>>
    /\ LET p == req[t].project_id
           k == KeyOf(req[t])
           old == IF k \in DOMAIN retrieved_metadata[t].results
                  THEN retrieved_metadata[t].results[k] ELSE EmptyMap
           merged == [m \in DOMAIN old \cup DOMAIN results[t] |->
                         IF m \in DOMAIN results[t] THEN results[t][m]
                         ELSE old[m]]
           updates == [retrieved_metadata[t] EXCEPT !.results =
                          Assign(@, k, merged)]
       IN  /\ records' = Update(records, p, updates)
           /\ Finish(t, OK, "none", Read(records', p))
    /\ UNCHANGED <<cache, procVars, otherThreadVars, ever_in_progress>>
    /\ UNCHANGED label_binarizer

\* retrieved_metadata['results'][expt_run_key] = results;
\* meta_records.update(...); 200
P_update(t) ==
    /\ pc[t] = "p_loop"
    /\ todo[t] = <<>>
    /\ LET p == req[t].project_id
           updates == [retrieved_metadata[t] EXCEPT !.results =
                          Assign(@, KeyOf(req[t]), results[t])]
       IN  /\ records' = Update(records, p, updates)
           /\ Finish(t, OK, "none", Read(records', p))
    /\ UNCHANGED <<cache, procVars, otherThreadVars, ever_in_progress>>
    /\ UNCHANGED label_binarizer

\* ----------------------------------------------------------- Alignment.post
\* variant: a project without record gets one made from the request
A_read_create(t, r) ==
    /\ pc[t] = "idle"
    /\ LET rec == Read(records, r.project_id) IN
       IF Truthy(rec)
       THEN /\ retrieved_metadata' = [retrieved_metadata EXCEPT ![t] = rec]
            /\ Enter(t, r, "a_update")
            /\ UNCHANGED <<project, results, todo, records>>
       ELSE /\ records' = [records EXCEPT ![r.project_id] =
                              NewRecord({})]
            /\ Reply(t, r, NotFound, "abort", NoRecord)
    /\ UNCHANGED <<cache, procVars, ever_in_progress>>
    /\ UNCHANGED label_binarizer

A_read(t, r) ==
    /\ pc[t] = "idle"
    /\ LET rec == Read(records, r.project_id) IN
       IF Truthy(rec)
       THEN /\ retrieved_metadata' = [retrieved_metadata EXCEPT ![t] = rec]
            /\ Enter(t, r, "a_update")
            /\ UNCHANGED <<project, results, todo>>
       ELSE Reply(t, r, NotFound, "abort", NoRecord)
    /\ UNCHANGED <<storeVars, procVars, ever_in_progress>>
    /\ UNCHANGED label_binarizer

\* variant: the update is built from the request instead of the record read
A_update_reset(t) ==
    /\ pc[t] = "a_update"
    /\ LET p == req[t].project_id
           updates == [NewRecord(retrieved_metadata[t].tags) EXCEPT
                          !.alignments = req[t].alignments]
       IN  IF req[t].tags = MissingTags
           THEN /\ Finish(t, NotFound, "KeyError", NoRecord)
                /\ UNCHANGED records
           ELSE IF req[t].tags # retrieved_metadata[t].tags
           THEN /\ Finish(t, InternalFailure, "AssertionError", NoRecord)
                /\ UNCHANGED records
           ELSE /\ records' = Update(records, p, updates)
                /\ Finish(t, OK, "none", Read(records', p))
    /\ UNCHANGED <<cache, procVars, otherThreadVars, ever_in_progress>>
    /\ UNCHANGED label_binarizer

\* assert request.json['tags'] == retrieved_metadata['tags'];
\* retrieved_metadata['alignments'] = request.json['alignments'];
\* meta_records.update(...); 200 -- `except KeyError` aborts with 404
A_update(t) ==
    /\ pc[t] = "a_update"
    /\ LET p == req[t].project_id
           updates == [retrieved_metadata[t] EXCEPT
                          !.alignments = req[t].alignments]
       IN  IF req[t].tags = MissingTags
           THEN /\ Finish(t, NotFound, "KeyError", NoRecord)
                /\ UNCHANGED records
           ELSE IF req[t].tags # retrieved_metadata[t].tags
           THEN /\ Finish(t, InternalFailure, "AssertionError", NoRecord)
                /\ UNCHANGED records
           ELSE /\ records' = Update(records, p, updates)
                /\ Finish(t, OK, "none", Read(records', p))
    /\ UNCHANGED <<cache, procVars, otherThreadVars, ever_in_progress>>
    /\ UNCHANGED label_binarizer

\* -------------------------------------------------------------------- specs
\* Spec and SpecPredict take the detach call to succeed.
DetachOutcomes == {FALSE}

TerminationSteps(t) ==
    \/ T_pop(t)
    \/ \E fails \in DetachOutcomes : T_detach(t, fails)
    \/ T_loop(t)
    \/ T_proc(t)
    \/ T_join(t)
    \/ T_update(t)

PredictionSteps(t) ==
    \/ P_cache(t)
    \/ P_role(t)
    \/ P_transform(t)
    \/ P_update(t)

AllIdle == \A t \in Threads : pc[t] = "idle"

\* Spec: the life cycle of the sessions of two projects.  One request thread,
\* so that a request is served to its end before the next one begins; every
\* operation on p1, and poll, start and terminate on p2.
OneRun == {<<"1">>}
OneRole == {{"evaluate"}}
LifecycleInferences == {<< <<"evaluate", "full">> >>, << <<"predict", "full">> >>}

Begin(t) ==
    \/ \E r \in PollRequests(Projects, OneRole) : Poll(t, r)
    \/ \E r \in StartRequests(Projects, OneRun, BOOLEAN, OneRole) : Start(t, r)
    \/ \E r \in TerminateRequests(Projects, OneRun) : T_read(t, r)
    \/ \E r \in PredictRequests({"p1"}, OneRun, LifecycleInferences) : P_read(t, r)
    \/ \E r \in AlignRequests({"p1"}, TagsInputs, {[kind |-> "a1"]}) : A_read(t, r)

Next ==
    \/ Begin("t1")
    \/ \E t \in Threads : TerminationSteps(t)
    \/ \E t \in Threads : PredictionSteps(t)
    \/ \E t \in Threads : A_update(t)
    \/ \E pid \in Pids : ProcessExits(pid)

Spec == Init /\ [][Next]_vars

\* SpecPredict: prediction ingestion for two runs and two roles of one
\* project, one request thread; the worker process runs until it is
\* signalled.
PredictInferences ==
    {<< <<"evaluate", "full">> >>,
     << <<"predict", "full">> >>,
     << <<"evaluate", "full">>, <<"predict", "full">> >>,
     << <<"predict", "full">>, <<"evaluate", "full">> >>,
     << <<"evaluate", "full">>, <<"predict", "empty">> >>,
     << <<"evaluate", "empty">> >>}

BeginPredict(t) ==
    \/ \E r \in PollRequests({"p1"}, TagsInputs) : Poll(t, r)
    \/ \E r \in StartRequests({"p1"}, RunIds, {FALSE}, TagsInputs) : Start(t, r)
    \/ \E r \in TerminateRequests({"p1"}, OneRun) : T_read(t, r)
    \/ \E r \in PredictRequests({"p1"}, RunIds, PredictInferences) : P_read(t, r)

NextPredict ==
    \/ BeginPredict("t1")
    \/ \E t \in Threads : TerminationSteps(t)
    \/ \E t \in Threads : PredictionSteps(t)
    \/ \E pid \in Pids : SignalHandled(pid)

SpecPredict == Init /\ [][NextPredict]_vars


\* ------------------------------------------------------------------- claims
\* Thread t has served a request of kind op to its end: req[t] is the
\* request, resp[t] the response, pre[t] the stores as the request found
\* them, and no other request has begun since.
Done(t, op) == pc[t] = "idle" /\ req[t].op = op

\* C1: termination of a project that has a record but no entry in the
\* Process Registry reports NotFound and leaves the record as it was.
C1_TerminateWithoutEntryIsNotFound ==
    \A t \in Threads :
        (/\ Done(t, "terminate")
         /\ Truthy(pre[t].records[req[t].project_id])
         /\ pre[t].cache[req[t].project_id] = Absent)
        => /\ resp[t].status = NotFound
           /\ records[req[t].project_id] = pre[t].records[req[t].project_id]

\* C2: after a termination that returned success, the returned record is the
\* persisted one, its is_live is false, and the Process Registry has no entry
\* for the project.
C2_SuccessfulTerminationNotLive ==
    \A t \in Threads :
        (Done(t, "terminate") /\ resp[t].status = OK)
        => /\ resp[t].data = records[req[t].project_id]
           /\ records[req[t].project_id].is_live = FALSE
           /\ cache[req[t].project_id] = Absent

\* a termination of a live session has returned success
C2_Witness ==
    \E t \in Threads :
        /\ Done(t, "terminate")
        /\ resp[t].status = OK
        /\ pre[t].records[req[t].project_id].is_live
        /\ IsStub(pre[t].cache[req[t].project_id])

\* C3: with no request in flight, is_live = true in a record implies that the
\* Process Registry holds an entry for the project.
C3_LiveImpliesEntry ==
    AllIdle =>
        \A p \in Projects :
            (Truthy(records[p]) /\ records[p].is_live) => cache[p] # Absent

\* C4: with no request in flight, an entry in the Process Registry implies
\* is_live = true in the record of the project.
C4_EntryImpliesLive ==
    AllIdle =>
        \A p \in Projects :
            cache[p] # Absent => (Truthy(records[p]) /\ records[p].is_live)

\* C5: every termination that removed the entry from the Process Registry
\* ends with is_live = false persisted, whatever the later teardown steps do.
C5_RemovedEntryEndsNotLive ==
    \A t \in Threads :
        (/\ Done(t, "terminate")
         /\ pre[t].cache[req[t].project_id] # Absent
         /\ cache[req[t].project_id] = Absent)
        => records[req[t].project_id].is_live = FALSE

\* C6: the steps of one termination happen in the order remove, detach,
\* loop stop, loop close, signal, join, check, release, write; and the
\* record is not written while the entry is in the registry or while the
\* process of the session is alive.
TeardownOrder == <<"remove", "detach", "loop_stop", "loop_close", "signal",
                   "join", "check", "release", "write">>
Rank(step) == CHOOSE i \in DOMAIN TeardownOrder : TeardownOrder[i] = step

C6_TeardownInOrder ==
    \A t \in Threads :
        req[t].op = "terminate" =>
            LET p == req[t].project_id IN
            /\ \A i, j \in DOMAIN steps[t] :
                   i < j => Rank(steps[t][i]) < Rank(steps[t][j])
            /\ records[p] # pre[t].records[p] =>
                   /\ cache[p] = Absent
                   /\ IsStub(pre[t].cache[p]) => ~alive[pre[t].cache[p].pid]

\* a termination has run all its steps on a session whose process was alive
C6_Witness ==
    \E t \in Threads :
        /\ Done(t, "terminate")
        /\ steps[t] = <<"remove", "detach", "signal", "join", "check",
                        "release", "write">>
        /\ records[req[t].project_id] # pre[t].records[req[t].project_id]

\* C7: prediction ingestion whose combination key is not in the in_progress
\* set of the project (or whose project has no record) reports NotFound,
\* writes no file and changes neither the records nor the registry.
C7_NotInProgressIsNotFound ==
    \A t \in Threads :
        (/\ Done(t, "predict")
         /\ ~(/\ Truthy(pre[t].records[req[t].project_id])
              /\ KeyOf(req[t]) \in pre[t].records[req[t].project_id].in_progress))
        => /\ resp[t].status = NotFound
           /\ written[t] = {}
           /\ records = pre[t].records
           /\ cache = pre[t].cache

\* an ingestion for a run that is not in progress, on a live project that has
\* another run in progress, has been answered
C7_Witness ==
    \E t \in Threads :
        /\ Done(t, "predict")
        /\ Truthy(records[req[t].project_id])
        /\ records[req[t].project_id].in_progress # {}
        /\ KeyOf(req[t]) \notin records[req[t].project_id].in_progress
        /\ IsStub(cache[req[t].project_id])
        /\ resp[t].status = NotFound

\* C8: prediction ingestion for a key in progress, on a project without entry
\* in the Process Registry, reports NotFound.
C8_NoSessionIsNotFound ==
    \A t \in Threads :
        (/\ Done(t, "predict")
         /\ Truthy(pre[t].records[req[t].project_id])
         /\ KeyOf(req[t]) \in pre[t].records[req[t].project_id].in_progress
         /\ pre[t].cache[req[t].project_id] = Absent)
        => resp[t].status = NotFound

\* C9: every combination key in the results of a project has been in the
\* in_progress set of that project.
C9_ResultsWereInProgress ==
    \A p \in Projects :
        Truthy(records[p]) =>
            DOMAIN records[p].results \subseteq ever_in_progress[p]

\* results are stored for two runs of a project
C9_Witness ==
    \E p \in Projects :
        /\ Truthy(records[p])
        /\ Cardinality(DOMAIN records[p].results) = 2

\* C10: after a successful prediction ingestion, results[key] holds exactly
\* the roles of this call that have an inference, and the results of every
\* other combination key are as before.
SubmittedRoles(inferences) ==
    {inferences[i][1] : i \in {j \in DOMAIN inferences :
                                  inferences[j][2] # "empty"}}

C10_ResubmissionReplaces ==
    \A t \in Threads :
        (Done(t, "predict") /\ resp[t].status = OK)
        => LET p == req[t].project_id
               k == KeyOf(req[t])
               old == pre[t].records[p].results
               new == records[p].results
           IN  /\ DOMAIN new = DOMAIN old \cup {k}
               /\ DOMAIN new[k] = SubmittedRoles(req[t].inferences)
               /\ \A k2 \in DOMAIN old \ {k} : new[k2] = old[k2]

\* a second successful ingestion for a key has dropped a role of the first,
\* with results of another key in the record
C10_Witness ==
    \E t \in Threads :
        /\ Done(t, "predict")
        /\ resp[t].status = OK
        /\ LET p == req[t].project_id
               k == KeyOf(req[t])
               old == pre[t].records[p].results
           IN  /\ k \in DOMAIN old
               /\ DOMAIN old[k] \ DOMAIN records[p].results[k] # {}
               /\ DOMAIN old \ {k} # {}

\* C11: prediction ingestion for a key in progress, with a role submitted
\* (with an inference) that has no entry in the exports of the record, ends
\* with the metadata-tracing error 417 and with nothing else.
C11_MissingExportIsInsufficient ==
    \A t \in Threads :
        (/\ Done(t, "predict")
         /\ InProgress(pre[t].records[req[t].project_id], KeyOf(req[t]))
         /\ SubmittedRoles(req[t].inferences)
                \ DOMAIN pre[t].records[req[t].project_id].exports # {})
        => resp[t].status = Insufficient

\* the lookup of the exports entry has raised KeyError and 417 was returned
C11_Reached417 ==
    \E t \in Threads : Done(t, "predict") /\ resp[t].status = Insufficient

\* ---------------------------------------------------------------- SpecAlign
\* SpecAlign: alignment apply on one project between the other operations,
\* one request thread; two alignment bodies, matching, differing and missing
\* tags.
Alignments == {[kind |-> "a1"], [kind |-> "a2"]}
AlignInferences == {<< <<"evaluate", "full">> >>}

BeginAlign(t) ==
    \/ \E r \in PollRequests({"p1"}, TagsInputs) : Poll(t, r)
    \/ \E r \in StartRequests({"p1"}, OneRun, {FALSE}, OneRole) : Start(t, r)
    \/ \E r \in TerminateRequests({"p1"}, OneRun) : T_read(t, r)
    \/ \E r \in PredictRequests({"p1"}, OneRun, AlignInferences) : P_read(t, r)
    \/ \E r \in AlignRequests({"p1"}, TagsInputs \cup {MissingTags}, Alignments) :
           A_read(t, r)

NextAlign ==
    \/ BeginAlign("t1")
    \/ \E t \in Threads : TerminationSteps(t)
    \/ \E t \in Threads : PredictionSteps(t)
    \/ \E t \in Threads : A_update(t)
    \/ \E pid \in Pids : SignalHandled(pid)

SpecAlign == Init /\ [][NextAlign]_vars

\* C12: alignment apply on a project whose stored tags equal the submitted
\* tags succeeds; the returned record is the persisted one, its alignments
\* are the submitted alignments and every other field is as before the call.
C12_AlignmentSuccessFrame ==
    \A t \in Threads :
        (/\ Done(t, "align")
         /\ Truthy(pre[t].records[req[t].project_id])
         /\ req[t].tags = pre[t].records[req[t].project_id].tags)
        => LET p == req[t].project_id
               old == pre[t].records[p]
           IN  /\ resp[t].status = OK
               /\ resp[t].data = records[p]
               /\ records[p].alignments = req[t].alignments
               /\ records[p].tags = old.tags
               /\ records[p].exports = old.exports
               /\ records[p].in_progress = old.in_progress
               /\ records[p].results = old.results
               /\ records[p].is_live = old.is_live

\* an alignment has replaced another one in a record of a live project that
\* holds results
C12_Witness ==
    \E t \in Threads :
        /\ Done(t, "align")
        /\ resp[t].status = OK
        /\ LET old == pre[t].records[req[t].project_id]
           IN  /\ old.alignments \in Alignments
               /\ old.alignments # req[t].alignments
               /\ old.is_live
               /\ old.results # EmptyMap
               /\ DOMAIN resp[t].data.results = DOMAIN old.results

\* C13: alignment apply whose tags differ from the tags stored in the record
\* fails with a client error (a 4xx status, not an internal failure) and
\* leaves the record as it was.
ClientErrors == {NotFound, Conflict, Insufficient}

C13_TagMismatchIsClientError ==
    \A t \in Threads :
        (/\ Done(t, "align")
         /\ Truthy(pre[t].records[req[t].project_id])
         /\ req[t].tags \in TagsInputs
         /\ req[t].tags # pre[t].records[req[t].project_id].tags)
        => /\ resp[t].status \in ClientErrors
           /\ records[req[t].project_id] = pre[t].records[req[t].project_id]

\* C14: alignment apply for a project without record reports NotFound and
\* creates no record: a read of the project still returns the not-found
\* sentinel.
C14_AlignWithoutRecordIsNotFound ==
    \A t \in Threads :
        (/\ Done(t, "align")
         /\ ~Truthy(pre[t].records[req[t].project_id]))
        => /\ resp[t].status = NotFound
           /\ Read(records, req[t].project_id) = NoRecord
           /\ cache = pre[t].cache

\* an alignment for a project without record has been answered
C14_Witness ==
    \E t \in Threads :
        /\ Done(t, "align")
        /\ req[t].tags \in TagsInputs
        /\ ~Truthy(pre[t].records[req[t].project_id])
        /\ resp[t].status = NotFound

\* ----------------------------------------------------------------- SpecConc
\* SpecConc: the server's request threads serve requests on one project at
\* the same time.  Terminations, ingestions and alignment applies arrive on
\* either thread and the steps of the two handlers interleave in every
\* order; poll and start arrive on t1 while no other request is in flight.
ConcAlignments == {[kind |-> "a1"]}

BeginSetup(t) ==
    \/ \E r \in PollRequests({"p1"}, OneRole) : AllIdle /\ Poll(t, r)
    \/ \E r \in StartRequests({"p1"}, OneRun, {FALSE}, OneRole) :
           AllIdle /\ Start(t, r)

BeginConc(t) ==
    \/ \E r \in TerminateRequests({"p1"}, OneRun) : T_read(t, r)
    \/ \E r \in PredictRequests({"p1"}, OneRun, AlignInferences) : P_read(t, r)
    \/ \E r \in AlignRequests({"p1"}, OneRole, ConcAlignments) : A_read(t, r)

NextConc ==
    \/ BeginSetup("t1")
    \/ \E t \in Threads : BeginConc(t)
    \/ \E t \in Threads : TerminationSteps(t)
    \/ \E t \in Threads : PredictionSteps(t)
    \/ \E t \in Threads : A_update(t)
    \/ \E pid \in Pids : SignalHandled(pid)

SpecConc == Init /\ [][NextConc]_vars

\* C15: two requests on one project that both succeeded leave a record that
\* holds the effect of both.  SpecConc submits one alignment body and
\* ingests for one run, and no operation takes alignments or results away,
\* so the effect of a successful alignment or ingestion is in the record
\* from its write on, unless another request wrote back an older record.
Effect(r, rec) ==
    IF r.op = "align" THEN rec.alignments = r.alignments
    ELSE IF r.op = "predict"
    THEN /\ KeyOf(r) \in DOMAIN rec.results
         /\ DOMAIN rec.results[KeyOf(r)] = SubmittedRoles(r.inferences)
    ELSE TRUE

C15_NoLostUpdate ==
    \A t, u \in Threads :
        (/\ t # u
         /\ Done(t, req[t].op) /\ req[t].op \in {"align", "predict"}
         /\ Done(u, req[u].op)
         /\ req[u].op \in {"terminate", "align", "predict"}
         /\ req[u].project_id = req[t].project_id
         /\ resp[t].status = OK
         /\ resp[u].status = OK)
        => Effect(req[t], records[req[t].project_id])

\* C16: the write of an alignment apply or of a prediction ingestion leaves
\* is_live as the lifecycle operations last set it: the step in which such a
\* handler writes the record and returns changes the is_live of no record.
C16_OnlyLifecycleSetsLive ==
    [][\A t \in Threads :
          (pc[t] \in {"a_update", "p_loop"} /\ pc'[t] = "idle")
          => \A p \in Projects :
                 Truthy(records[p]) => records'[p].is_live = records[p].is_live
      ]_vars

\* C17: of two terminations that both found the same session in the registry,
\* exactly one obtains the entry and runs the teardown, and the other one
\* reports NotFound.
Has(t, step) == \E i \in DOMAIN steps[t] : steps[t][i] = step

C17_OneTeardown ==
    \A t, u \in Threads :
        (/\ t # u
         /\ Done(t, "terminate")
         /\ Done(u, "terminate")
         /\ req[t].project_id = req[u].project_id
         /\ IsStub(pre[t].cache[req[t].project_id])
         /\ pre[u].cache[req[u].project_id] = pre[t].cache[req[t].project_id])
        => \/ Has(t, "remove") /\ ~Has(u, "remove") /\ resp[u].status = NotFound
           \/ Has(u, "remove") /\ ~Has(t, "remove") /\ resp[t].status = NotFound

\* the part of C17 that is about the entry alone: exactly one of the two
\* terminations obtains it
C17_ExactlyOneObtains ==
    \A t, u \in Threads :
        (/\ t # u
         /\ Done(t, "terminate")
         /\ Done(u, "terminate")
         /\ req[t].project_id = req[u].project_id
         /\ IsStub(pre[t].cache[req[t].project_id])
         /\ pre[u].cache[req[u].project_id] = pre[t].cache[req[t].project_id])
        => Has(t, "remove") # Has(u, "remove")

\* C18: a prediction ingestion never looks labels up through a worker stub
\* after a termination has begun to tear the stub's event loop or process
\* down: the loop was told to stop, or the process was signalled (a
\* termination waits in join) or released.
TearingDown(pid) ==
    \/ loop[pid] = "stopping"
    \/ closed[pid]
    \/ \E u \in Threads :
           /\ pc[u] = "t_join"
           /\ IsStub(project[u])
           /\ project[u].pid = pid

\* the step of thread t is an iteration of Prediction.post that searches the
\* stub for the labels of a role
LabelLookup(t) ==
    /\ pc[t] = "p_loop"
    /\ todo[t] # <<>>
    /\ todo[t][1][2] # "empty"
    /\ pc'[t] # pc[t]

C18_NoUseOfTornDownStub ==
    [][\A t \in Threads :
          LabelLookup(t) => ~TearingDown(project[t].pid)]_vars

\* C19: after a termination of (project, expt, run) that returned success,
\* the run's combination key is not in the in_progress set of the project.
C19_TerminatedKeyNotInProgress ==
    \A t \in Threads :
        (Done(t, "terminate") /\ resp[t].status = OK)
        => KeyOf(req[t]) \notin records[req[t].project_id].in_progress

\* ------------------------------------------------------------ SpecTerminate
\* SpecTerminate: sessions of one project are started and terminated, one
\* request thread.  A request thread that can take its next step takes it;
\* nothing makes a signalled process exit.
BeginTerminate(t) ==
    \/ \E r \in PollRequests({"p1"}, TagsInputs) : Poll(t, r)
    \/ \E r \in StartRequests({"p1"}, RunIds, BOOLEAN, TagsInputs) : Start(t, r)
    \/ \E r \in TerminateRequests({"p1"}, RunIds) : T_read(t, r)

NextTerminate ==
    \/ BeginTerminate("t1")
    \/ \E t \in Threads : TerminationSteps(t)
    \/ \E pid \in Pids : ProcessExits(pid)

SpecTerminate ==
    /\ Init
    /\ [][NextTerminate]_vars
    /\ \A t \in Threads : WF_vars(TerminationSteps(t))

\* C20: a termination that has started comes to its end, with success or
\* with a reported failure, also when the signalled process does not exit.
C20_TerminationCompletes ==
    \A t \in Threads :
        (pc[t] # "idle" /\ req[t].op = "terminate")
            ~> (pc[t] = "idle" /\ resp[t].status \in {OK, InternalFailure})

\* C21: a start for a project that has a live session, with no termination
\* since the first start, yields Conflict, and the Process Registry still
\* holds the entry of the first start and no other.
C21_SecondStartIsConflict ==
    \A t \in Threads :
        (/\ Done(t, "start")
         /\ IsStub(pre[t].cache[req[t].project_id])
         /\ pre[t].records[req[t].project_id].is_live)
        => /\ resp[t].status = Conflict
           /\ cache = pre[t].cache
           /\ records = pre[t].records

\* a second start has been answered while the process of the first one runs
C21_Witness ==
    \E t \in Threads :
        /\ Done(t, "start")
        /\ resp[t].status = Conflict
        /\ IsStub(cache[req[t].project_id])
        /\ alive[cache[req[t].project_id].pid]
        /\ nextPid <= MaxPid

\* ---------------------------------------------------------------- SpecCodec
\* SpecCodec: the combination key codec on its own.  A request carries an
\* experiment and a run identifier, strings over Alphabet of 1 to MaxIdLen
\* characters that do not hold the separator; the key is built from them and
\* then taken apart again.
MaxIdLen == 2
Alphabet == {"a", "b", "1"}

RECURSIVE Strings(_)
Strings(n) ==
    IF n = 0 THEN {<<>>}
    ELSE LET shorter == Strings(n - 1)
         IN  shorter \cup {Append(s, c) : s \in {x \in shorter : Len(x) = n - 1},
                                         c \in Alphabet}
Identifiers == Strings(MaxIdLen) \ {<<>>}

\* decode: the key is split at its first separator.
HasSep(key) == \E i \in 1..Len(key) : key[i] = Sep
FirstSep(key) ==
    CHOOSE i \in 1..Len(key) :
        key[i] = Sep /\ \A j \in 1..(i - 1) : key[j] # Sep
decode(key) ==
    IF HasSep(key)
    THEN <<SubSeq(key, 1, FirstSep(key) - 1),
           SubSeq(key, FirstSep(key) + 1, Len(key))>>
    ELSE <<key, <<>>>>

CodecRequests ==
    {[op |-> "encode", expt_id |-> e, run_id |-> r] :
        e \in Identifiers, r \in Identifiers}

InitCodec ==
    /\ records = [p \in Projects |-> NoRecord]
    /\ cache = [p \in Projects |-> Absent]
    /\ alive = [i \in Pids |-> FALSE]
    /\ closed = [i \in Pids |-> FALSE]
    /\ loop = [i \in Pids |-> "idle"]
    /\ registered = [i \in Pids |-> FALSE]
    /\ data = [i \in Pids |-> {}]
    /\ nextPid = 1
    /\ pc = [t \in Threads |-> "idle"]
    /\ \E r \in CodecRequests : req = [t \in Threads |-> r]
    /\ retrieved_metadata = [t \in Threads |-> NoRecord]
    /\ project = [t \in Threads |-> Absent]
    /\ results = [t \in Threads |-> EmptyMap]
    /\ todo = [t \in Threads |-> <<>>]
    /\ resp = [t \in Threads |-> NoResp]
    /\ written = [t \in Threads |-> {}]
    /\ steps = [t \in Threads |-> <<>>]
    /\ pre = [t \in Threads |-> NoPre]
    /\ ever_in_progress = [p \in Projects |-> {}]
    /\ label_binarizer = Unfitted

\* expt_run_key = construct_combination_key(expt_id, run_id)
CodecEncode(t) ==
    /\ req[t].op = "encode"
    /\ resp[t] = NoResp
    /\ resp' = [resp EXCEPT ![t] =
                   Response(req[t], OK, "none", [key |-> KeyOf(req[t])])]
    /\ UNCHANGED <<storeVars, procVars, pc, req, pre, localVars,
                   otherThreadVars, ever_in_progress>>
    /\ UNCHANGED label_binarizer

\* the key is decoded into its pair of identifiers
CodecDecode(t) ==
    /\ req[t].op = "encode"
    /\ resp[t] # NoResp
    /\ DOMAIN resp[t].data = {"key"}
    /\ resp' = [resp EXCEPT ![t] =
                   Response(req[t], OK, "none",
                            [key |-> resp[t].data.key,
                             pair |-> decode(resp[t].data.key)])]
    /\ UNCHANGED <<storeVars, procVars, pc, req, pre, localVars,
                   otherThreadVars, ever_in_progress>>
    /\ UNCHANGED label_binarizer

NextCodec ==
    \/ \E t \in Threads : CodecEncode(t)
    \/ \E t \in Threads : CodecDecode(t)

SpecCodec == InitCodec /\ [][NextCodec]_vars

\* C22: for identifiers without the separator, decoding the key of a pair
\* gives the pair back, and no other pair of identifiers has the same key.
C22_CodecIsBijective ==
    \A t \in Threads :
        (req[t].op = "encode" /\ resp[t] # NoResp)
        => /\ \A e \in Identifiers, r \in Identifiers :
                  construct_combination_key(e, r) = resp[t].data.key
                  => (e = req[t].expt_id /\ r = req[t].run_id)
           /\ "pair" \in DOMAIN resp[t].data
                  => resp[t].data.pair = <<req[t].expt_id, req[t].run_id>>

\* a key of two identifiers of more than one character has been decoded
C22_Witness ==
    \E t \in Threads :
        /\ req[t].op = "encode"
        /\ resp[t] # NoResp
        /\ "pair" \in DOMAIN resp[t].data
        /\ Len(req[t].expt_id) > 1
        /\ Len(req[t].run_id) > 1
        /\ resp[t].data.pair = <<req[t].expt_id, req[t].run_id>>

\* ---------------------------------------------------------------- SpecStore
\* SpecStore: the Record Store on its own.  Records of one project are
\* created and then updated with documents that hold any subset of the
\* mutable fields.
MutableFields == {"tags", "alignments", "exports", "in_progress", "results",
                  "is_live"}
Restrict(doc, fields) == [f \in fields \cap DOMAIN doc |-> doc[f]]

FullDocs ==
    {NewRecord({"evaluate"}),
     [NewRecord({"evaluate", "predict"}) EXCEPT
         !.alignments = [kind |-> "a1"],
         !.in_progress = {construct_combination_key(<<"e">>, <<"1">>)},
         !.is_live = TRUE]}
UpdateDocs ==
    {Restrict(doc, fields \cup {"kind"}) :
        doc \in FullDocs, fields \in SUBSET MutableFields}

UpdateRequests(projects) ==
    {[op |-> "update", project_id |-> p, updates |-> u] :
        p \in projects, u \in UpdateDocs}

\* meta_records.update(project_id, updates) as an operation of its own:
\* NotFound for a project without record, else the new snapshot.
StoreUpdate(t, r) ==
    /\ pc[t] = "idle"
    /\ LET p == r.project_id IN
       IF ~Truthy(Read(records, p))
       THEN /\ Reply(t, r, NotFound, "NotFound", NoRecord)
            /\ UNCHANGED records
       ELSE /\ records' = Update(records, p, r.updates)
            /\ Reply(t, r, OK, "none", Read(records', p))
    /\ UNCHANGED <<cache, procVars, ever_in_progress>>
    /\ UNCHANGED label_binarizer

NextStore ==
    \/ \E r \in PollRequests({"p1"}, TagsInputs) : Poll("t1", r)
    \/ \E r \in UpdateRequests({"p1"}) : StoreUpdate("t1", r)

SpecStore == Init /\ [][NextStore]_vars

\* C23: after update(project, updates) the stored record is `updates` and
\* nothing of the record before: every mutable field in `updates` has the
\* value given there, every mutable field omitted from `updates` is absent,
\* and the snapshot returned is what a read returns.
C23_UpdateReplaces ==
    \A t \in Threads :
        (Done(t, "update") /\ resp[t].status = OK)
        => LET rec == Read(records, req[t].project_id)
               updates == req[t].updates
           IN  /\ resp[t].data = rec
               /\ \A f \in MutableFields :
                      IF f \in DOMAIN updates
                      THEN f \in DOMAIN rec /\ rec[f] = updates[f]
                      ELSE f \notin DOMAIN rec

\* an update has omitted a field that the record held, with a value that is
\* not the default of a new record
C23_Witness ==
    \E t \in Threads :
        /\ Done(t, "update")
        /\ resp[t].status = OK
        /\ LET old == pre[t].records[req[t].project_id]
           IN  /\ "alignments" \in DOMAIN old
               /\ old.alignments # NoAlignments
               /\ "alignments" \notin DOMAIN req[t].updates
               /\ "is_live" \in DOMAIN req[t].updates

\* C24: a termination that finds the event loop of the stub running stops
\* and closes the loop, goes on to the process and ends with success and
\* is_live = false; the running loop does not make it fail.
C24_RunningLoopDoesNotFail ==
    \A t \in Threads :
        (Done(t, "terminate") /\ Has(t, "loop_stop"))
        => /\ resp[t].status = OK
           /\ records[req[t].project_id].is_live = FALSE
           /\ loop[pre[t].cache[req[t].project_id].pid] # "running"

\* C25: the steps a termination takes on the worker process are signal,
\* join, check, release, in this order and each after the one before; and
\* after a termination that returned success the worker process of the
\* session is not alive, and released if it was signalled.
IsProcessStep(step) == step \in {"signal", "join", "check", "release"}
ProcessSteps(t) == SelectSeq(steps[t], IsProcessStep)
IsPrefix(a, b) == Len(a) <= Len(b) /\ a = SubSeq(b, 1, Len(a))

C25_ProcessTeardown ==
    \A t \in Threads :
        req[t].op = "terminate" =>
            /\ IsPrefix(ProcessSteps(t),
                        <<"signal", "join", "check", "release">>)
            /\ (Done(t, "terminate") /\ resp[t].status = OK) =>
                   LET pid == pre[t].cache[req[t].project_id].pid IN
                   /\ ~alive[pid]
                   /\ Has(t, "signal") => (Has(t, "release") /\ closed[pid])

\* a termination has signalled, joined, checked and released a process and
\* returned success
C25_Witness ==
    \E t \in Threads :
        /\ Done(t, "terminate")
        /\ resp[t].status = OK
        /\ ProcessSteps(t) = <<"signal", "join", "check", "release">>
        /\ closed[pre[t].cache[req[t].project_id].pid]

\* --------------------------------------------------------------- SpecDetach
\* SpecDetach: sessions of one project are started and terminated, one
\* request thread; the call that detaches the stub from the local worker
\* registry of the hook either returns or raises.
DetachMayFail == BOOLEAN

TerminationStepsDetach(t) ==
    \/ T_pop(t)
    \/ \E fails \in DetachMayFail : T_detach(t, fails)
    \/ T_loop(t)
    \/ T_proc(t)
    \/ T_join(t)
    \/ T_update(t)

BeginDetach(t) ==
    \/ \E r \in PollRequests({"p1"}, TagsInputs) : Poll(t, r)
    \/ \E r \in StartRequests({"p1"}, RunIds, {FALSE}, TagsInputs) : Start(t, r)
    \/ \E r \in TerminateRequests({"p1"}, RunIds) : T_read(t, r)

NextDetach ==
    \/ BeginDetach("t1")
    \/ \E t \in Threads : TerminationStepsDetach(t)
    \/ \E pid \in Pids : SignalHandled(pid)

SpecDetach == Init /\ [][NextDetach]_vars

\* C26: a termination whose detach step failed has still stopped the event
\* loop and terminated the worker process: it does not end with the process
\* of the session alive and its entry gone from the registry.
C26_DetachIsBestEffort ==
    \A t \in Threads :
        (/\ Done(t, "terminate")
         /\ Has(t, "remove")
         /\ ~Has(t, "detach")
         /\ IsStub(pre[t].cache[req[t].project_id]))
        => LET pid == pre[t].cache[req[t].project_id].pid IN
           /\ ~alive[pid]
           /\ loop[pid] # "running"

\* C27: a prediction ingestion, successful or failed, leaves the Process
\* Registry with an entry for exactly the projects that had one before.
C27_IngestionKeepsRegistryKeys ==
    \A t \in Threads :
        Done(t, "predict") =>
            \A p \in Projects :
                (cache[p] = Absent) <=> (pre[t].cache[p] = Absent)

\* C28: a prediction ingestion that ends with the metadata-tracing error 417
\* leaves the stored record of the project as it was before the call, also
\* when roles before the failing one were processed.
C28_InsufficientLeavesRecord ==
    \A t \in Threads :
        (Done(t, "predict") /\ resp[t].status = Insufficient)
        => records = pre[t].records

\* an ingestion has ended with 417 at its second role, after the files of
\* the first role were written
C28_Witness ==
    \E t \in Threads :
        /\ Done(t, "predict")
        /\ resp[t].status = Insufficient
        /\ Len(req[t].inferences) = 2
        /\ y_pred_path(req[t].project_id, req[t].expt_id, req[t].run_id,
                       req[t].inferences[1][1]) \in written[t]
        /\ req[t].inferences[2][1] \notin
               DOMAIN records[req[t].project_id].exports

\* C29: after a successful prediction ingestion, results[key] has a bundle
\* with statistics and a statistics path for exactly the roles submitted
\* with an inference, exports has the predictions path and the scores path
\* of the call for exactly those roles, and the exports of the other roles,
\* tags, alignments, in_progress and is_live are as before.
C29_IngestionSuccessFrame ==
    \A t \in Threads :
        (Done(t, "predict") /\ resp[t].status = OK)
        => LET p == req[t].project_id
               e == req[t].expt_id
               r == req[t].run_id
               old == pre[t].records[p]
               new == records[p]
               roles == SubmittedRoles(req[t].inferences)
           IN  /\ DOMAIN new.results[KeyOf(req[t])] = roles
               /\ \A m \in roles :
                      /\ new.results[KeyOf(req[t])][m].res_path =
                             stats_path(p, e, r, m)
                      /\ new.exports[m] =
                             [predictions |-> y_pred_path(p, e, r, m),
                              scores |-> y_score_path(p, e, r, m)]
               /\ DOMAIN new.exports = DOMAIN old.exports
               /\ \A m \in DOMAIN old.exports \ roles :
                      new.exports[m] = old.exports[m]
               /\ new.tags = old.tags
               /\ new.alignments = old.alignments
               /\ new.in_progress = old.in_progress
               /\ new.is_live = old.is_live

\* a successful ingestion had a role with an inference and a role with an
\* empty one, and the record has exports for both roles
C29_Witness ==
    \E t \in Threads :
        /\ Done(t, "predict")
        /\ resp[t].status = OK
        /\ SubmittedRoles(req[t].inferences) = {"evaluate"}
        /\ Len(req[t].inferences) = 2
        /\ DOMAIN records[req[t].project_id].exports = {"evaluate", "predict"}
        /\ records[req[t].project_id].exports["predict"].predictions = NoPath

\* C30: every step of a termination, whether it goes on to succeed or to
\* fail, leaves the registry entries and the records of all other projects,
\* and the processes, loops and stubs of all other sessions, as they are.
\* The step of thread t belongs to a termination
TerminationStepOf(t) ==
    /\ req'[t].op = "terminate"
    /\ <<pc[t], req[t], resp[t], pre[t], steps[t]>>'
           # <<pc[t], req[t], resp[t], pre[t], steps[t]>>

OwnPids(t) ==
    (IF IsStub(project[t]) THEN {project[t].pid} ELSE {})
        \cup (IF IsStub(project'[t]) THEN {project'[t].pid} ELSE {})

C30_OtherProjectsUntouched ==
    [][\A t \in Threads :
          TerminationStepOf(t) =>
              /\ \A q \in Projects \ {req'[t].project_id} :
                     /\ cache'[q] = cache[q]
                     /\ records'[q] = records[q]
              /\ \A pid \in Pids \ OwnPids(t) :
                     /\ alive'[pid] = alive[pid]
                     /\ closed'[pid] = closed[pid]
                     /\ loop'[pid] = loop[pid]
                     /\ registered'[pid] = registered[pid]
      ]_vars

\* a termination of one project has returned success while the other
\* project has a live session whose process runs
C30_Witness ==
    \E t \in Threads :
        /\ Done(t, "terminate")
        /\ resp[t].status = OK
        /\ \E q \in Projects \ {req[t].project_id} :
               /\ IsStub(cache[q])
               /\ alive[cache[q].pid]
               /\ records[q].is_live
               /\ pre[t].cache[q] = cache[q]

BeginLabelsSetup(t) ==
    \/ \E r \in PollRequests(Projects, OneRole) : AllIdle /\ Poll(t, r)
    \/ \E r \in StartRequests(Projects, OneRun, {FALSE}, OneRole) :
           AllIdle /\ Start(t, r)

BeginLabels(t) ==
    \E r \in PredictRequests(Projects, OneRun, AlignInferences) : P_read(t, r)

NextLabels ==
    \/ BeginLabelsSetup("t1")
    \/ \E t \in Threads : BeginLabels(t)
    \/ \E t \in Threads : PredictionSteps(t)

SpecLabels == Init /\ [][NextLabels]_vars

\* The encoding of the labels of a role of a project when its ingestion
\* runs with no other request in flight: fit and transform on those labels.
EncodingAlone(p, meta) ==
    Transform(Fit(RawLabels(p, meta)), RawLabels(p, meta))

\* C32: the label encoding behind every statistics bundle a successful
\* ingestion returns is the one the request gets when it runs alone: fitted
\* on the labels of its own project and role, whatever ingestion runs on
\* the other thread.
C32_LabelsAreOwn ==
    \A t \in Threads :
        (Done(t, "predict") /\ resp[t].status = OK)
        => \A m \in DOMAIN resp[t].data.results[KeyOf(req[t])] :
               resp[t].data.results[KeyOf(req[t])][m].statistics.classes =
                   EncodingAlone(req[t].project_id, m)

\* --------------------------------------------------------------- SpecLogger
\* SpecLogger: the start of the server.  The command line is parsed and
\* construct_logger_kwargs is applied to the parsed values; each thread
\* stands for one start of the program.
\* Python values: a str is a sequence of characters, a list a sequence of
\* values; both are subscripted and measured the same way.
Str(chars) == [kind |-> "str", chars |-> chars]
List(items) == [kind |-> "list", items |-> items]
PyNone == [kind |-> "None"]
PyLen(x) == IF x.kind = "str" THEN Len(x.chars) ELSE Len(x.items)
\* x[i], for 0 <= i < len(x): a character of a str is a str of length one
GetItem(x, i) ==
    IF x.kind = "str" THEN Str(<<x.chars[i + 1]>>) ELSE x.items[i + 1]

Digits == <<"0", "1", "2", "3", "4", "5", "6", "7", "8", "9">>
IsDigits(chars) ==
    /\ chars # <<>>
    /\ \A i \in DOMAIN chars : \E d \in DOMAIN Digits : Digits[d] = chars[i]
DigitValue(c) == (CHOOSE d \in DOMAIN Digits : Digits[d] = c) - 1
RECURSIVE int(_)
\* int(s) of a str of decimal digits
int(chars) ==
    IF chars = <<>> THEN 0
    ELSE 10 * int(SubSeq(chars, 1, Len(chars) - 1))
             + DigitValue(chars[Len(chars)])

Basic == Str(<<"b", "a", "s", "i", "c">>)
Graylog == Str(<<"g", "r", "a", "y", "l", "o", "g">>)
\* if logging_variant not in ["basic", "graylog"]
SupportedVariants == {Basic, Graylog}

\* Words of a command line: the two variants, a variant that is not
\* supported, a host name, a port number and a word that is no number.
Words == {Basic, Graylog, Str(<<"s", "y", "s">>), Str(<<"h">>),
          Str(<<"9", "0">>), Str(<<"x">>)}
MaxArgs == 3
RECURSIVE WordLists(_)
WordLists(n) ==
    IF n = 0 THEN {<<>>}
    ELSE {<<>>} \cup {<<w>> \o l : w \in Words, l \in WordLists(n - 1)}

\* --logging_variant is not on the command line
NotGiven == [kind |-> "not given"]
\* nargs="+": the flag takes one word or more
Given == {List(l) : l \in WordLists(MaxArgs) \ {<<>>}}

CommandLines ==
    {[op |-> "main", logging_variant |-> f, debug |-> d, censored |-> c] :
        f \in {NotGiven} \cup Given, d \in BOOLEAN, c \in BOOLEAN}

\* parser.parse_args(): a flag that is given yields the list of its words,
\* a flag that is not given yields the default as it was declared, the str
\* "basic".
parse_args(argv) ==
    [logging_variant |-> IF argv.logging_variant = NotGiven
                         THEN Basic ELSE argv.logging_variant,
     debug |-> argv.debug,
     censored |-> argv.censored]

Raised(error) == [kind |-> "raised", error |-> error]
Returned(value) == [kind |-> "returned", value |-> value]

CensorKeys == {"SRC_DIR", "IN_DIR", "OUT_DIR", "DATA_DIR", "MODEL_DIR",
               "CUSTOM_DIR", "TEST_DIR", "DB_TEMPLATE", "CACHE_TEMPLATE",
               "PREDICT_TEMPLATE"}

\* construct_logger_kwargs(**kwargs): the result, or the exception raised
construct_logger_kwargs(kwargs) ==
    LET logging_config == kwargs.logging_variant
        logging_variant == GetItem(logging_config, 0)
    IN  IF logging_variant \notin SupportedVariants
        THEN Raised("ArgumentTypeError")
        \* logging_config[2] of a sequence of two
        ELSE IF PyLen(logging_config) > 1 /\ PyLen(logging_config) < 3
        THEN Raised("IndexError")
        \* int() of a str that is no number
        ELSE IF /\ PyLen(logging_config) > 1
                /\ ~IsDigits(GetItem(logging_config, 2).chars)
        THEN Raised("ValueError")
        ELSE Returned(
            [logging_variant |-> logging_variant,
             server |-> IF PyLen(logging_config) > 1
                        THEN GetItem(logging_config, 1) ELSE PyNone,
             port |-> IF PyLen(logging_config) > 1
                      THEN int(GetItem(logging_config, 2).chars) ELSE PyNone,
             logging_level |-> IF kwargs.debug THEN "DEBUG" ELSE "INFO",
             debugging_fields |-> kwargs.debug,
             censor_keys |-> IF kwargs.censored THEN CensorKeys ELSE {}])

InitLogger ==
    /\ records = [p \in Projects |-> NoRecord]
    /\ cache = [p \in Projects |-> Absent]
    /\ alive = [i \in Pids |-> FALSE]
    /\ closed = [i \in Pids |-> FALSE]
    /\ loop = [i \in Pids |-> "idle"]
    /\ registered = [i \in Pids |-> FALSE]
    /\ data = [i \in Pids |-> {}]
    /\ nextPid = 1
    /\ pc = [t \in Threads |-> "idle"]
    /\ \E r \in CommandLines : req = [t \in Threads |-> r]
    /\ retrieved_metadata = [t \in Threads |-> NoRecord]
    /\ project = [t \in Threads |-> Absent]
    /\ results = [t \in Threads |-> EmptyMap]
    /\ todo = [t \in Threads |-> <<>>]
    /\ resp = [t \in Threads |-> NoResp]
    /\ written = [t \in Threads |-> {}]
    /\ steps = [t \in Threads |-> <<>>]
    /\ pre = [t \in Threads |-> NoPre]
    /\ ever_in_progress = [p \in Projects |-> {}]
    /\ label_binarizer = Unfitted

\* input_kwargs = vars(parser.parse_args())
ParseArgs(t) ==
    /\ req[t].op = "main"
    /\ resp[t] = NoResp
    /\ resp' = [resp EXCEPT ![t] = [input_kwargs |-> parse_args(req[t])]]
    /\ UNCHANGED <<storeVars, procVars, pc, req, pre, localVars,
                   otherThreadVars, ever_in_progress, label_binarizer>>

\* logger_kwargs = construct_logger_kwargs(**input_kwargs)
ConstructLoggerKwargs(t) ==
    /\ req[t].op = "main"
    /\ DOMAIN resp[t] = {"input_kwargs"}
    /\ resp' = [resp EXCEPT ![t] =
                   [input_kwargs |-> resp[t].input_kwargs,
                    logger_kwargs |->
                        construct_logger_kwargs(resp[t].input_kwargs)]]
    /\ UNCHANGED <<storeVars, procVars, pc, req, pre, localVars,
                   otherThreadVars, ever_in_progress, label_binarizer>>

NextLogger ==
    \/ \E t \in Threads : ParseArgs(t)
    \/ \E t \in Threads : ConstructLoggerKwargs(t)

SpecLogger == InitLogger /\ [][NextLogger]_vars

\* The variant a command line asks for: the first word of the flag, or the
\* parser's default when the flag is not given.
VariantOf(argv) ==
    IF argv.logging_variant = NotGiven THEN Basic
    ELSE GetItem(argv.logging_variant, 0)

\* C33: for every command line whose variant is "basic" or "graylog",
\* with the flag given or not, construct_logger_kwargs returns that
\* variant, with server and port None when the flag has no word after the
\* variant; it raises only when the variant is not supported.
C33_SupportedVariantIsAccepted ==
    \A t \in Threads :
        (req[t].op = "main" /\ "logger_kwargs" \in DOMAIN resp[t])
        => LET argv == req[t]
               out == resp[t].logger_kwargs
           IN  /\ VariantOf(argv) \in SupportedVariants
                  => /\ out.kind = "returned"
                     /\ out.value.logging_variant = VariantOf(argv)
                     /\ (argv.logging_variant = NotGiven
                         \/ PyLen(argv.logging_variant) = 1)
                        => /\ out.value.server = PyNone
                           /\ out.value.port = PyNone
               /\ out.kind = "raised"
                  => VariantOf(argv) \notin SupportedVariants

====
